---- MODULE Spec2Model ----
(***************************************************************************)
(* Model of quickstart.py: the aTimeLogger report loader (load_report),    *)
(* the event builder (add_calendar_evt) and the reconciliation pass of     *)
(* main() against a remote calendar (colors.get, events.list,              *)
(* events.delete, events.insert).                                          *)
(*                                                                         *)
(* Text is modelled by strings.  A timestamp string is one of the keys of  *)
(* IsoTable ("HH:00+hh:00"); an aware datetime is a record                 *)
(* [instant, off]: the absolute instant in hours and the UTC offset.       *)
(***************************************************************************)
EXTENDS Integers, Sequences, FiniteSets, TLC

\* calendar    the events the remote calendar holds
\* calendar0   the calendar before the first run (history)
\* nextId      the id the service gives to the next inserted event
\* report      the report file: its header line and its rows
\* pc, err     the position of main() and the exception that ended it
\* activities, events, existing, idx, start_match   the locals of main()
\* log         the network calls and prompts of the current run, in order
\* faulted     whether a network call failed in transport (history)
\* refused     whether the service refused a call it received (history)
\* runs        how many times the script was started
VARIABLES calendar, calendar0, nextId, report, pc, err, activities, events,
          existing, idx, start_match, log, faulted, refused, runs

vars == <<calendar, calendar0, nextId, report, pc, err, activities, events,
          existing, idx, start_match, log, faulted, refused, runs>>

(***************************************************************************)
(* Bounds of the model.                                                    *)
(***************************************************************************)
\* Rows of a report of a full run, and of a report that is only loaded.
MaxRows == 2

MaxLoadRows == 3

\* Times the script is started.
MaxRuns == 2

(***************************************************************************)
(* Python values.                                                          *)
(***************************************************************************)
\* Python's None, a value that is no field string.
None == "<None>"

Range(s) == {s[k] : k \in DOMAIN s}

\* datetime.fromisoformat on the timestamp strings of the model: the wall
\* clock hour and the UTC offset each string denotes.
IsoTable ==
    [s \in {"09:00+00:00", "10:00+00:00", "11:00+00:00", "12:00+00:00",
            "04:00-05:00", "05:00-05:00", "06:00-05:00", "07:00-05:00"} |->
        CASE s = "09:00+00:00" -> [wall |-> 9, off |-> 0]
          [] s = "10:00+00:00" -> [wall |-> 10, off |-> 0]
          [] s = "11:00+00:00" -> [wall |-> 11, off |-> 0]
          [] s = "12:00+00:00" -> [wall |-> 12, off |-> 0]
          [] s = "04:00-05:00" -> [wall |-> 4, off |-> -5]
          [] s = "05:00-05:00" -> [wall |-> 5, off |-> -5]
          [] s = "06:00-05:00" -> [wall |-> 6, off |-> -5]
          [] s = "07:00-05:00" -> [wall |-> 7, off |-> -5]]

\* Whether datetime.fromisoformat accepts the string.
IsIso(s) == s \in DOMAIN IsoTable

\* datetime.fromisoformat(s) for an accepted string: an aware datetime.
fromisoformat(s) ==
    [instant |-> IsoTable[s].wall - IsoTable[s].off, off |-> IsoTable[s].off]

\* dt.isoformat(): wall clock of the instant at the datetime's own offset.
isoformat(dt) ==
    CHOOSE s \in DOMAIN IsoTable :
        IsoTable[s] = [wall |-> dt.instant + dt.off, off |-> dt.off]

\* UTC offset of America/Chicago on the report's date (daylight time).
CentralOffset == 0 - 5

\* dt.astimezone(CENTRAL_TIME): same instant, Central offset.
astimezone(dt) == [instant |-> dt.instant, off |-> CentralOffset]

\* a == b on aware datetimes: equality of the instants.
DtEq(a, b) == a.instant = b.instant

\* Activity type => color ID mapping.
COLOR_MAP ==
    [t \in {"Research ABR", "Research Other", "Research Physicalization",
            "Dissertation", "Meeting", "Teaching Prep", "Teaching", "Grading",
            "Volunteer"} |->
        CASE t = "Research ABR" -> "10"
          [] t = "Research Other" -> "6"
          [] t = "Research Physicalization" -> "4"
          [] t = "Dissertation" -> "4"
          [] t = "Meeting" -> "11"
          [] t = "Teaching Prep" -> "3"
          [] t = "Teaching" -> "3"
          [] t = "Grading" -> "3"
          [] t = "Volunteer" -> "9"]

\* COLOR_MAP.get(act_type, None)
ColorOf(act_type) ==
    IF act_type \in DOMAIN COLOR_MAP THEN COLOR_MAP[act_type] ELSE None

(***************************************************************************)
(* load_report                                                             *)
(***************************************************************************)
\* Position of a column in the header (0 when the header lacks it).
ColIndex(header, c) ==
    IF c \in Range(header)
    THEN CHOOSE k \in DOMAIN header : header[k] = c /\ \A j \in 1..(k-1) : header[j] # c
    ELSE 0

\* row[c] of the dict csv.DictReader builds: a field the row is too short
\* for is None.
Field(header, row, c) ==
    LET k == ColIndex(header, c) IN IF k <= Len(row) THEN row[k] ELSE None

\* RowError without the check that discards the summary rows: a row with no
\* To field reaches fromisoformat(None).
RowError_NoSkip(header, row) ==
    LET cols == Range(header)
        to == Field(header, row, "To")
        from == Field(header, row, "From")
    IN IF "To" \notin cols THEN "KeyError: column"
       ELSE IF "Activity type" \notin cols THEN "KeyError: column"
       ELSE IF to = None THEN "TypeError: isoformat"
       ELSE IF ~IsIso(to) THEN "ValueError: isoformat"
       ELSE IF "From" \notin cols THEN "KeyError: column"
       ELSE IF from = None THEN "TypeError: isoformat"
       ELSE IF ~IsIso(from) THEN "ValueError: isoformat"
       ELSE "none"

\* The exception the body of the row loop raises on this row, or "none".
\* 'To' is read first, then 'Activity type', then 'To' and 'From' are parsed.
RowError(header, row) ==
    LET cols == Range(header)
        to == Field(header, row, "To")
        from == Field(header, row, "From")
    IN IF "To" \notin cols THEN "KeyError: column"
       ELSE IF to = None THEN "none"
       ELSE IF "Activity type" \notin cols THEN "KeyError: column"
       ELSE IF ~IsIso(to) THEN "ValueError: isoformat"
       ELSE IF "From" \notin cols THEN "KeyError: column"
       ELSE IF from = None THEN "TypeError: isoformat"
       ELSE IF ~IsIso(from) THEN "ValueError: isoformat"
       ELSE "none"

\* The activity built from a data row.
RowActivity(header, row) ==
    [type |-> Field(header, row, "Activity type"),
     From |-> astimezone(fromisoformat(Field(header, row, "From"))),
     To |-> astimezone(fromisoformat(Field(header, row, "To")))]

RECURSIVE LoadRows(_, _, _, _)
\* The row loop from row k on, with the entries collected so far.
LoadRows(header, rows, k, entries) ==
    IF k > Len(rows) THEN [err |-> "none", entries |-> entries]
    ELSE IF rows[k] = <<>> THEN LoadRows(header, rows, k + 1, entries)
    ELSE LET raised == RowError(header, rows[k]) IN
         IF raised # "none" THEN [err |-> raised, entries |-> <<>>]
         ELSE IF Field(header, rows[k], "To") = None
              THEN LoadRows(header, rows, k + 1, entries)
         ELSE LoadRows(header, rows, k + 1,
                       Append(entries, RowActivity(header, rows[k])))

load_report(report_csv) == LoadRows(report_csv.header, report_csv.rows, 1, <<>>)

(***************************************************************************)
(* add_calendar_evt                                                        *)
(***************************************************************************)
\* EventBody without the test of color_id: the field is always sent.
EventBody_AlwaysColor(name, from_dt, to_dt, color_id) ==
    [summary |-> name, start |-> isoformat(from_dt),
     end |-> isoformat(to_dt), colorId |-> color_id]

\* The body add_calendar_evt sends to events.insert.
EventBody(name, from_dt, to_dt, color_id) ==
    IF color_id # None
    THEN [summary |-> name, start |-> isoformat(from_dt),
          end |-> isoformat(to_dt), colorId |-> color_id]
    ELSE [summary |-> name, start |-> isoformat(from_dt),
          end |-> isoformat(to_dt)]

(***************************************************************************)
(* The remote calendar.                                                    *)
(***************************************************************************)
\* The event the service stores for an inserted body.
StoredEvent(id, body) ==
    [id |-> id, summary |-> body.summary, start |-> body.start, end |-> body.end,
     colorId |-> IF "colorId" \in DOMAIN body THEN body.colorId ELSE None]

\* events.list(timeMin, timeMax): the events that end after timeMin and
\* start before timeMax.
InWindow(evt, timeMin, timeMax) ==
    /\ fromisoformat(evt.end).instant > fromisoformat(timeMin).instant
    /\ fromisoformat(evt.start).instant < fromisoformat(timeMax).instant

\* orderBy='startTime': the sequences without repetition of the events,
\* ordered by start; events with equal starts come in either order.
OrderedListings(evts) ==
    {s \in [1..Cardinality(evts) -> evts] :
        /\ \A j, k \in DOMAIN s : j # k => s[j] # s[k]
        /\ \A j, k \in DOMAIN s :
              j < k => fromisoformat(s[j].start).instant
                          <= fromisoformat(s[k].start).instant}

(***************************************************************************)
(* main: the steps before the activity loop.                               *)
(***************************************************************************)
\* min(activities, key=From)['From'] and max(activities, key=To)['To'].
Beginning(acts) ==
    acts[CHOOSE k \in DOMAIN acts :
        \A j \in DOMAIN acts : acts[k].From.instant <= acts[j].From.instant
    ].From

End(acts) ==
    acts[CHOOSE k \in DOMAIN acts :
        \A j \in DOMAIN acts : acts[k].To.instant >= acts[j].To.instant
    ].To

\* The record of the lookup for one fetched event.
IndexRec(evt) ==
    [id |-> evt.id, start |-> fromisoformat(evt.start),
     end |-> fromisoformat(evt.end)]

RECURSIVE BuildIndex(_, _, _)
\* existing after the events from position k on are added to it.
BuildIndex(items, k, ex) ==
    IF k > Len(items) THEN ex
    ELSE LET summary == items[k].summary
             evt_list == IF summary \in DOMAIN ex THEN ex[summary] ELSE <<>>
             added == Append(evt_list, IndexRec(items[k]))
         IN BuildIndex(items, k + 1,
                [s \in DOMAIN ex \cup {summary} |->
                    IF s = summary THEN added ELSE ex[s]])

\* The empty dict.
EmptyDict == [s \in {} |-> <<>>]

\* [a['start'] for a in existing[act_type]].index(start), counted from 1;
\* 0 stands for the ValueError branch (start_match = None).
StartIndex(recs, start) ==
    IF \E k \in DOMAIN recs : DtEq(recs[k].start, start)
    THEN CHOOSE k \in DOMAIN recs :
            /\ DtEq(recs[k].start, start)
            /\ \A j \in 1..(k-1) : ~DtEq(recs[j].start, start)
    ELSE 0

\* StartMatch that looks at the type alone: the first record of the type.
StartMatch_TypeOnly(ex, activity) ==
    IF activity.type \in DOMAIN ex THEN 1 ELSE 0

\* start_match for an activity: 0 when the type is not in existing or no
\* record of the type has the activity's start.
StartMatch(ex, activity) ==
    IF activity.type \in DOMAIN ex
    THEN StartIndex(ex[activity.type], activity.From)
    ELSE 0

Call(op, act, arg, ok) == [op |-> op, act |-> act, arg |-> arg, ok |-> ok]

(***************************************************************************)
(* Inputs of the model.                                                    *)
(***************************************************************************)
Headers == {<<"Activity type", "From", "To">>, <<"Activity type", "From">>}

DataRows ==
    {<<"Meeting", "09:00+00:00", "11:00+00:00">>,
     <<"Meeting", "10:00+00:00", "11:00+00:00">>,
     <<"Hobby", "09:00+00:00", "11:00+00:00">>}

\* A summary row (activity type and duration only), a row with an empty To
\* field, and a row with an unparseable To field.
SummaryRow == <<"Meeting", "1:00">>

EmptyToRow == <<"Meeting", "09:00+00:00", "">>

BadToRow == <<"Meeting", "09:00+00:00", "yesterday">>

\* The reports of at most n rows drawn from the given rows.
Reports(rows, n) ==
    [header : Headers, rows : UNION {[1..k -> rows] : k \in 0..n}]

\* Events a calendar may hold before the first run.  Their starts and ends
\* are written at other offsets, and end at other instants, than those of
\* the events the script creates.
OldMeeting9 ==
    [summary |-> "Meeting", start |-> "09:00+00:00", end |-> "12:00+00:00",
     colorId |-> None]

OldMeeting10 ==
    [summary |-> "Meeting", start |-> "05:00-05:00", end |-> "06:00-05:00",
     colorId |-> "11"]

OldHobby9 ==
    [summary |-> "Hobby", start |-> "04:00-05:00", end |-> "11:00+00:00",
     colorId |-> None]

\* An event outside the window of every report of the model.
OldMeeting11 ==
    [summary |-> "Meeting", start |-> "11:00+00:00", end |-> "12:00+00:00",
     colorId |-> None]

\* The calendar holding the given events under the ids 1, 2, ...
WithIds(evts) ==
    {[id |-> k, summary |-> evts[k].summary, start |-> evts[k].start,
      end |-> evts[k].end, colorId |-> evts[k].colorId] : k \in DOMAIN evts}

InitCalendars ==
    {WithIds(evts) : evts \in {<<>>, <<OldMeeting9>>, <<OldMeeting10>>,
                               <<OldHobby9>>, <<OldMeeting11>>,
                               <<OldMeeting10, OldMeeting9>>,
                               <<OldMeeting9, OldMeeting9>>}}

(***************************************************************************)
(* The run.                                                                *)
(***************************************************************************)
\* The state when the script is first started on report rep with the
\* calendar holding cal.
Start(cal, rep) ==
    /\ calendar = cal
    /\ calendar0 = cal
    /\ nextId = Cardinality(cal) + 1
    /\ report = rep
    /\ pc = "colors"
    /\ err = "none"
    /\ activities = <<>>
    /\ events = <<>>
    /\ existing = EmptyDict
    /\ idx = 0
    /\ start_match = 0
    /\ log = <<>>
    /\ faulted = FALSE
    /\ refused = FALSE
    /\ runs = 1

Init ==
    \E cal \in InitCalendars,
       rep \in Reports(DataRows \cup {EmptyToRow, BadToRow}, MaxRows) :
        Start(cal, rep)

\* Longer reports, with summary rows, on an empty calendar: for the loader
\* alone.
InitLoad ==
    \E rep \in Reports(DataRows \cup {SummaryRow, EmptyToRow, BadToRow},
                       MaxLoadRows) :
        Start({}, rep)

\* An uncaught exception ends the run.
Raise(e) ==
    /\ pc' = "aborted"
    /\ err' = e

\* service.colors().get().execute()
ColorsGet ==
    /\ pc = "colors"
    /\ \E ok \in BOOLEAN :
        /\ log' = Append(log, Call("colors.get", 0, [none |-> None], ok))
        /\ faulted' = (faulted \/ ~ok)
        /\ IF ok THEN pc' = "load" /\ err' = err ELSE Raise("HttpError")
    /\ UNCHANGED <<calendar, calendar0, nextId, report, activities, events, existing,
                   idx, start_match, refused, runs>>

\* The activities of the rows load_report can read.
ReadableRows(rep) ==
    LoadRows(rep.header,
             SelectSeq(rep.rows, LAMBDA row :
                 row = <<>> \/ RowError(rep.header, row) = "none"),
             1, <<>>).entries

\* LoadReport that drops the rows it cannot read instead of raising.
LoadReport_SkipBadRows ==
    /\ pc = "load"
    /\ IF ReadableRows(report) = <<>>
       THEN Raise("ValueError: min of empty") /\ activities' = <<>>
       ELSE pc' = "list" /\ err' = err /\ activities' = ReadableRows(report)
    /\ UNCHANGED <<calendar, calendar0, nextId, report, events, existing, idx,
                   start_match, log, faulted, refused, runs>>

\* activities = load_report(...), then beginning and end (min and max of an
\* empty list raise ValueError).
LoadReport ==
    /\ pc = "load"
    /\ LET r == load_report(report) IN
        IF r.err # "none"
        THEN Raise(r.err) /\ activities' = activities
        ELSE IF r.entries = <<>>
        THEN Raise("ValueError: min of empty") /\ activities' = r.entries
        ELSE pc' = "list" /\ err' = err /\ activities' = r.entries
    /\ UNCHANGED <<calendar, calendar0, nextId, report, events, existing, idx,
                   start_match, log, faulted, refused, runs>>

\* service.events().list(...).execute() and the lookup built from its items.
EventsList ==
    /\ pc = "list"
    /\ LET timeMin == isoformat(Beginning(activities))
           timeMax == isoformat(End(activities))
       IN \E ok \in BOOLEAN :
            /\ log' = Append(log, Call("events.list", 0,
                         [timeMin |-> timeMin, timeMax |-> timeMax], ok))
            /\ faulted' = (faulted \/ ~ok)
            /\ IF ok
               THEN \E items \in OrderedListings(
                          {e \in calendar : InWindow(e, timeMin, timeMax)}) :
                       /\ events' = items
                       /\ existing' = BuildIndex(items, 1, EmptyDict)
                       /\ idx' = 1
                       /\ pc' = "loop"
                       /\ err' = err
               ELSE Raise("HttpError") /\ UNCHANGED <<events, existing, idx>>
    /\ UNCHANGED <<calendar, calendar0, nextId, report, activities,
                   start_match, refused, runs>>

\* The head of one iteration: the lookup of the activity in existing.
CheckActivity ==
    /\ pc = "loop"
    /\ idx <= Len(activities)
    /\ start_match' = StartMatch(existing, activities[idx])
    /\ pc' = IF start_match' # 0 THEN "prompt" ELSE "insert"
    /\ UNCHANGED <<calendar, calendar0, nextId, report, err, activities,
                   events, existing, idx, log, faulted, refused, runs>>

\* input('... already exists. Delete? (y/n): ').lower() == 'y'
Prompt ==
    /\ pc = "prompt"
    /\ \E delete \in BOOLEAN :
        /\ log' = Append(log, Call("input", idx, [delete |-> delete], TRUE))
        /\ IF delete
           THEN pc' = "delete" /\ idx' = idx
           ELSE pc' = "loop" /\ idx' = idx + 1
    /\ UNCHANGED <<calendar, calendar0, nextId, report, err, activities,
                   events, existing, start_match, faulted, refused, runs>>

\* EventsDelete followed by a second events.list query.
EventsDelete_Requery ==
    /\ pc = "delete"
    /\ LET eventId == existing[activities[idx].type][start_match].id
           present == \E e \in calendar : e.id = eventId
       IN \E ok \in BOOLEAN :
            /\ log' = log \o <<Call("events.delete", idx,
                                    [eventId |-> eventId, present |-> present],
                                    ok /\ present),
                               Call("events.list", idx,
                                    [timeMin |-> isoformat(Beginning(activities)),
                                     timeMax |-> isoformat(End(activities))],
                                    ok /\ present)>>
            /\ faulted' = (faulted \/ ~ok)
            /\ refused' = (refused \/ (ok /\ ~present))
            /\ IF ok /\ present
               THEN /\ calendar' = {e \in calendar : e.id # eventId}
                    /\ pc' = "insert"
                    /\ err' = err
               ELSE Raise("HttpError") /\ calendar' = calendar
    /\ UNCHANGED <<calendar0, nextId, report, activities, events, existing, idx,
                   start_match, runs>>

\* service.events().delete(eventId=existing[act_type][start_match]['id']):
\* the service refuses an id it does not hold.
EventsDelete ==
    /\ pc = "delete"
    /\ LET eventId == existing[activities[idx].type][start_match].id
           present == \E e \in calendar : e.id = eventId
       IN \E ok \in BOOLEAN :
            /\ log' = Append(log, Call("events.delete", idx,
                         [eventId |-> eventId, present |-> present], ok /\ present))
            /\ faulted' = (faulted \/ ~ok)
            /\ refused' = (refused \/ (ok /\ ~present))
            /\ IF ok /\ present
               THEN /\ calendar' = {e \in calendar : e.id # eventId}
                    /\ pc' = "insert"
                    /\ err' = err
               ELSE Raise("HttpError") /\ calendar' = calendar
    /\ UNCHANGED <<calendar0, nextId, report, activities, events, existing, idx,
                   start_match, runs>>

\* EventsInsert in a loop that catches the error and goes on with the next
\* activity.
EventsInsert_Continue ==
    /\ pc = "insert"
    /\ LET activity == activities[idx]
           body == EventBody(activity.type, activity.From, activity.To,
                             ColorOf(activity.type))
       IN \E ok \in BOOLEAN :
            /\ log' = Append(log, Call("events.insert", idx, body, ok))
            /\ faulted' = (faulted \/ ~ok)
            /\ calendar' = IF ok THEN calendar \cup {StoredEvent(nextId, body)}
                                 ELSE calendar
            /\ nextId' = IF ok THEN nextId + 1 ELSE nextId
            /\ idx' = idx + 1
            /\ pc' = "loop"
            /\ err' = err
    /\ UNCHANGED <<calendar0, report, activities, events, existing, start_match,
                   refused, runs>>

\* EventsInsert in a loop that does not move on to the next activity.
EventsInsert_NoAdvance ==
    /\ pc = "insert"
    /\ LET activity == activities[idx]
           body == EventBody(activity.type, activity.From, activity.To,
                             ColorOf(activity.type))
       IN \E ok \in BOOLEAN :
            /\ log' = Append(log, Call("events.insert", idx, body, ok))
            /\ faulted' = (faulted \/ ~ok)
            /\ IF ok
               THEN /\ calendar' = calendar \cup {StoredEvent(nextId, body)}
                    /\ nextId' = nextId + 1
                    /\ idx' = idx
                    /\ pc' = "loop"
                    /\ err' = err
               ELSE Raise("HttpError") /\ UNCHANGED <<calendar, nextId, idx>>
    /\ UNCHANGED <<calendar0, report, activities, events, existing, start_match,
                   refused, runs>>

\* add_calendar_evt(service, calendar_id, act_type, start, end,
\*                  color_id=COLOR_MAP.get(act_type, None))
EventsInsert ==
    /\ pc = "insert"
    /\ LET activity == activities[idx]
           body == EventBody(activity.type, activity.From, activity.To,
                             ColorOf(activity.type))
       IN \E ok \in BOOLEAN :
            /\ log' = Append(log, Call("events.insert", idx, body, ok))
            /\ faulted' = (faulted \/ ~ok)
            /\ IF ok
               THEN /\ calendar' = calendar \cup {StoredEvent(nextId, body)}
                    /\ nextId' = nextId + 1
                    /\ idx' = idx + 1
                    /\ pc' = "loop"
                    /\ err' = err
               ELSE Raise("HttpError") /\ UNCHANGED <<calendar, nextId, idx>>
    /\ UNCHANGED <<calendar0, report, activities, events, existing, start_match,
                   refused, runs>>

\* The loop is exhausted: main returns.
Finish ==
    /\ pc = "loop"
    /\ idx > Len(activities)
    /\ pc' = "done"
    /\ UNCHANGED <<calendar, calendar0, nextId, report, err, activities,
                   events, existing, idx, start_match, log, faulted, refused, runs>>

\* The script is started again on the same report file.
Rerun ==
    /\ pc \in {"done", "aborted"}
    /\ runs < MaxRuns
    /\ runs' = runs + 1
    /\ pc' = "colors"
    /\ err' = "none"
    /\ activities' = <<>>
    /\ events' = <<>>
    /\ existing' = EmptyDict
    /\ idx' = 0
    /\ start_match' = 0
    /\ log' = <<>>
    /\ UNCHANGED <<calendar, calendar0, nextId, report, faulted, refused>>

Next ==
    \/ ColorsGet
    \/ LoadReport
    \/ EventsList
    \/ CheckActivity
    \/ Prompt
    \/ EventsDelete
    \/ EventsInsert
    \/ Finish
    \/ Rerun

Spec == Init /\ [][Next]_vars

\* The run up to the end of load_report.
NextLoad ==
    \/ ColorsGet
    \/ LoadReport

SpecLoad == InitLoad /\ [][NextLoad]_vars

(***************************************************************************)
(* Vocabulary of the properties.                                           *)
(***************************************************************************)
Writes == {"events.insert", "events.delete"}

\* The calls and prompts of the current run made for activity i, in order.
LogOf(i) == SelectSeq(log, LAMBDA c : c.act = i)

OpsOf(i) == [k \in 1..Len(LogOf(i)) |-> LogOf(i)[k].op]

\* The loop of the current run has been entered (events.list returned).
InLoop == idx >= 1

\* The iteration of activity i is over: the loop moved on, or the run died in it.
Ended(i) == idx > i \/ (idx = i /\ pc = "aborted")

\* The fetched events with the summary of activity i.
SameSummary(i) ==
    {k \in DOMAIN events : events[k].summary = activities[i].type}

\* The fetched events with the summary and the start of activity i.
Matches(i) ==
    {k \in SameSummary(i) :
        fromisoformat(events[k].start).instant = activities[i].From.instant}

\* No two events of the calendar have the same summary and start.
NoDup(cal) ==
    \A a, b \in cal :
        (a.summary = b.summary
         /\ fromisoformat(a.start).instant = fromisoformat(b.start).instant)
        => a.id = b.id

(***************************************************************************)
(* C1: an activity for which no fetched event has both its type as summary *)
(* and its From as start (no event of the type at all, or events of the    *)
(* type that all start elsewhere, whatever their ends) is never prompted   *)
(* for and never deleted for, and once its iteration is over exactly one   *)
(* events.insert was issued for it, carrying its type and start.           *)
(***************************************************************************)
C1_NoMatchCreates ==
    \A i \in 1..Len(activities) :
        (InLoop /\ Matches(i) = {}) =>
            LET l == LogOf(i) IN
            /\ \A k \in DOMAIN l : l[k].op = "events.insert"
            /\ Len(l) <= 1
            /\ Ended(i) =>
                /\ Len(l) = 1
                /\ l[1].arg.summary = activities[i].type
                /\ fromisoformat(l[1].arg.start).instant
                      = activities[i].From.instant

\* An activity whose type is in the index with another start and another
\* end than its own was created without a prompt.
C1_Witness ==
    \E i \in 1..Len(activities) :
        /\ idx > i
        /\ Matches(i) = {}
        /\ \E k \in SameSummary(i) :
              fromisoformat(events[k].end).instant # activities[i].To.instant
        /\ OpsOf(i) = <<"events.insert">>

(***************************************************************************)
(* C2: in a run without transport failures, an activity for which a        *)
(* fetched event has its summary and start is prompted for once; on a      *)
(* decline nothing else is issued for it; on a confirmation exactly one    *)
(* events.delete of a matched id is issued, followed by exactly one        *)
(* events.insert.                                                          *)
(***************************************************************************)
C2_PromptThenSkipOrDeleteCreate ==
    \A i \in 1..Len(activities) :
        (InLoop /\ ~faulted /\ Matches(i) # {} /\ Ended(i)) =>
            LET l == LogOf(i) IN
            /\ Len(l) >= 1
            /\ l[1].op = "input"
            /\ IF l[1].arg.delete
               THEN /\ Len(l) = 3
                    /\ l[2].op = "events.delete"
                    /\ l[2].arg.eventId \in {events[k].id : k \in Matches(i)}
                    /\ l[3].op = "events.insert"
               ELSE Len(l) = 1

(***************************************************************************)
(* C5: from a calendar without two events of the same summary and start,   *)
(* runs in which no call fails never leave two events with the same        *)
(* summary and start on the calendar.                                      *)
(***************************************************************************)
C5_NoDuplicateEvents ==
    (NoDup(calendar0) /\ ~faulted /\ ~refused) => NoDup(calendar)

(***************************************************************************)
(* C10: every events.delete call names an event id the calendar holds at   *)
(* the moment of the call.                                                 *)
(***************************************************************************)
C10_DeleteTargetsPresentEvent ==
    \A k \in DOMAIN log :
        log[k].op = "events.delete" => log[k].arg.present

(***************************************************************************)
(* C3: a failed events.insert or events.delete during activity i does not  *)
(* halt the run while activities after i are unprocessed.                  *)
(***************************************************************************)
C3_FailureDoesNotHalt ==
    \A k \in DOMAIN log :
        (log[k].op \in Writes /\ ~log[k].ok /\ log[k].act < Len(activities))
        => pc # "aborted"

(***************************************************************************)
(* C3 as amended: a failed events.insert or events.delete during activity  *)
(* i is the last thing the run does.  The run ends there with the error,   *)
(* nothing is issued for an activity after i, and the events inserted      *)
(* earlier in the run stay on the calendar.                                *)
(***************************************************************************)
C3_FailureHaltsRun ==
    \A k \in DOMAIN log :
        (log[k].op \in Writes /\ ~log[k].ok) =>
            /\ k = Len(log)
            /\ pc = "aborted"
            /\ err = "HttpError"
            /\ idx = log[k].act
            /\ \A j \in DOMAIN log : log[j].act <= idx
            /\ \A j \in 1..(k-1) :
                  (log[j].op = "events.insert" /\ log[j].ok) =>
                      \E e \in calendar :
                          /\ e.summary = log[j].arg.summary
                          /\ e.start = log[j].arg.start
                          /\ e.end = log[j].arg.end

\* A write failed for the first of two activities, after a successful delete.
C3_Witness ==
    /\ pc = "aborted"
    /\ Len(activities) = 2
    /\ idx = 1
    /\ OpsOf(1) = <<"input", "events.delete", "events.insert">>
    /\ ~log[Len(log)].ok
    /\ OpsOf(2) = <<>>

\* The exceptions load_report raises on a report it cannot read.
FormatErrors == {"KeyError: column", "ValueError: isoformat", "TypeError: isoformat"}

(***************************************************************************)
(* C4: when load_report fails with an input-format error the run has       *)
(* issued no network call at all.                                          *)
(***************************************************************************)
C4_NoCallBeforeLoadFailure ==
    (pc = "aborted" /\ err \in FormatErrors) => log = <<>>

(***************************************************************************)
(* C4 as amended: a report that load_report cannot read never gets a run   *)
(* past loading, and the run that dies in load_report has issued           *)
(* colors.get and nothing else: no events.list, events.insert or           *)
(* events.delete.                                                          *)
(***************************************************************************)
C4_LoadFailureOnlyAfterColorsGet ==
    /\ pc = "list" =>
          /\ load_report(report).err = "none"
          /\ activities = load_report(report).entries
    /\ (pc = "aborted" /\ err \in FormatErrors) =>
          /\ err = load_report(report).err
          /\ Len(log) = 1
          /\ log[1].op = "colors.get"
          /\ log[1].ok
          /\ activities = <<>>

\* A run died on an unparseable timestamp in the second row, the calendar
\* not being empty.
C4_Witness ==
    /\ pc = "aborted"
    /\ err = "ValueError: isoformat"
    /\ Len(report.rows) = 2
    /\ report.rows[1] \in DataRows
    /\ calendar # {}
    /\ OpsOf(0) = <<"colors.get">>

\* The number of writes issued for activity i.
WriteCount(i) == Cardinality({k \in DOMAIN log : log[k].act = i /\ log[k].op \in Writes})

\* The operator confirmed the deletion for activity i.
Confirmed(i) ==
    \E k \in DOMAIN log :
        log[k].act = i /\ log[k].op = "input" /\ log[k].arg.delete

(***************************************************************************)
(* C6: at most one network write (events.insert or events.delete) is       *)
(* issued per activity.                                                    *)
(***************************************************************************)
C6_AtMostOneWrite ==
    \A i \in 1..Len(activities) : WriteCount(i) <= 1

(***************************************************************************)
(* C6 as amended: at most two network writes are issued per activity, and  *)
(* more than one only when the operator confirmed the deletion (the        *)
(* delete and the create).                                                 *)
(***************************************************************************)
C6_AtMostTwoWrites ==
    \A i \in 1..Len(activities) :
        /\ WriteCount(i) <= 2
        /\ WriteCount(i) = 2 => Confirmed(i)

\* Two writes were issued for one activity.
C6_Witness ==
    \E i \in 1..Len(activities) : WriteCount(i) = 2 /\ idx > i

\* The positions of the log with the given operation.
Positions(op) == {k \in DOMAIN log : log[k].op = op}

(***************************************************************************)
(* C7: a run issues events.list at most once, exactly once when it reaches *)
(* the activity loop, and before every prompt and write; the calls come in *)
(* the order of the activities; no activity has more than one delete or    *)
(* more than one create, and its delete comes before its create.           *)
(***************************************************************************)
C7_OneListThenOrderedWrites ==
    LET lists == Positions("events.list")
        deletes == Positions("events.delete")
        creates == Positions("events.insert")
    IN /\ Cardinality(lists) <= 1
       /\ (InLoop \/ pc = "done") => Cardinality(lists) = 1
       /\ \A k \in DOMAIN log :
             log[k].op \in Writes \cup {"input"} =>
                 \E j \in lists : j < k /\ log[j].ok
       /\ \A k \in 1..(Len(log) - 1) : log[k].act <= log[k + 1].act
       /\ \A d1, d2 \in deletes : log[d1].act = log[d2].act => d1 = d2
       /\ \A c1, c2 \in creates : log[c1].act = log[c2].act => c1 = c2
       /\ \A d \in deletes, c \in creates : log[d].act = log[c].act => d < c

\* A finished run over two activities: a delete and a create for the first,
\* a create for the second.
C7_Witness ==
    /\ pc = "done"
    /\ Len(activities) = 2
    /\ OpsOf(1) = <<"input", "events.delete", "events.insert">>
    /\ OpsOf(2) = <<"events.insert">>

(***************************************************************************)
(* C8: the body of every events.insert has the activity's type as summary, *)
(* its From as start and its To as end; it has the colorId COLOR_MAP gives *)
(* the type when the type is a key of COLOR_MAP, and no colorId field      *)
(* otherwise.                                                              *)
(***************************************************************************)
C8_CreateBody ==
    \A k \in Positions("events.insert") :
        LET a == activities[log[k].act]
            b == log[k].arg
        IN /\ b.summary = a.type
           /\ fromisoformat(b.start) = a.From
           /\ fromisoformat(b.end) = a.To
           /\ a.type \in DOMAIN COLOR_MAP =>
                 "colorId" \in DOMAIN b /\ b.colorId = COLOR_MAP[a.type]
           /\ a.type \notin DOMAIN COLOR_MAP => "colorId" \notin DOMAIN b

\* A run created a "Meeting" with colorId "11" and a "Hobby" with no colorId.
C8_Witness ==
    /\ \E k \in Positions("events.insert") :
          /\ log[k].arg.summary = "Meeting"
          /\ "colorId" \in DOMAIN log[k].arg
          /\ log[k].arg.colorId = "11"
    /\ \E k \in Positions("events.insert") :
          /\ log[k].arg.summary = "Hobby"
          /\ "colorId" \notin DOMAIN log[k].arg

\* load_report has run in the current run.
Loaded == pc = "list" \/ (pc = "aborted" /\ err # "HttpError")

\* The rows of the report before the last one.
DataPart == SubSeq(report.rows, 1, Len(report.rows) - 1)

\* The report has the full header and consists of data rows followed by one
\* more row.
DataThenTrailer ==
    /\ report.header = <<"Activity type", "From", "To">>
    /\ Len(report.rows) >= 1
    /\ \A k \in DOMAIN DataPart : DataPart[k] \in DataRows

\* The last row of the report.
Trailer == report.rows[Len(report.rows)]

\* load_report returned one activity per data row, in file order.
OnePerDataRow ==
    /\ err \notin FormatErrors
    /\ Len(activities) = Len(DataPart)
    /\ \A k \in DOMAIN DataPart :
          /\ activities[k].type = DataPart[k][1]
          /\ activities[k].From.instant
                = IsoTable[DataPart[k][2]].wall - IsoTable[DataPart[k][2]].off
          /\ activities[k].To.instant
                = IsoTable[DataPart[k][3]].wall - IsoTable[DataPart[k][3]].off

(***************************************************************************)
(* C9: on a report of N data rows followed by one summary row whose To     *)
(* field is the empty string, load_report returns N activities, one per    *)
(* data row in file order, and raises nothing.                             *)
(***************************************************************************)
C9_EmptyToRowSkipped ==
    (Loaded /\ DataThenTrailer /\ Len(Trailer) = 3 /\ Trailer[3] = "")
    => OnePerDataRow

(***************************************************************************)
(* C9 as amended: on a report of N data rows followed by one summary row   *)
(* that has no To field (the row is shorter than the header), load_report  *)
(* returns N activities, one per data row in file order, and raises        *)
(* nothing.                                                                *)
(***************************************************************************)
C9_AbsentToRowSkipped ==
    (Loaded /\ DataThenTrailer /\ Trailer # <<>> /\ Len(Trailer) < 3)
    => OnePerDataRow

\* Two different data rows and a summary row were loaded.
C9_Witness ==
    /\ Loaded
    /\ DataThenTrailer
    /\ Trailer = SummaryRow
    /\ Len(DataPart) = 2
    /\ DataPart[1] # DataPart[2]
    /\ Len(activities) = 2

====
